---- MODULE Spec2Model ----
(***************************************************************************)
(* ChatStreamManager (src/src/graph/checkpoint.py): an in-memory store of  *)
(* stream chunks per thread, consolidated into MongoDB or PostgreSQL when  *)
(* a chunk arrives with finish_reason "stop" or "interrupt", plus the      *)
(* event / research-replay loggers and the module-level wrappers; and      *)
(* parse_uri of the FastGPT provider (src/src/rag/fastgpt.py).             *)
(***************************************************************************)
EXTENDS Integers, Sequences, FiniteSets, TLC

\* ---------------------------------------------------------------- bounds
MaxChunks == 2
MaxReplays == 1
MaxEvents == 1

\* ---------------------------------------------------------------- inputs
NoneVal == "None"
NonStrId == "int:7"
ThreadIds == {"t1", "t2"}
ThreadArgs == ThreadIds \cup {"", NonStrId}
\* A str of chunk text is the sequence of its words; NoText is "".
NoText == <<>>
\* chunk texts; the k-th chunk buffered carries the k-th text, so that every
\* buffered chunk can be told from the others
MessagePool == << <<"plain", "a">>, <<"event:", "b">>,
                 <<"event:", "message_chunk", "content", "c">>,
                 <<"event:", "message_chunk", "d">>, <<"data:", "e">>, <<"plain", "f">> >>
Messages == {MessagePool[i] : i \in 1..Len(MessagePool)}
FinishReasons == {"stop", "interrupt", "tool_calls"}
Topics == {"topic"}
Styles == {"style"}
CountArgs == {0, 2}
LimitArgs == {1, 2}
SortArgs == {"ts", "messages"}
EventThreads == {"t1"}
EventNames == {"e1"}
Levels == {"info"}
DbUris == { <<"mongodb", "://", "h">>, <<"postgresql", "://", "h">>,
            <<"mongodb+srv", "://", "h">> }
\* connecting: it succeeds, or it raises before the handle is assigned; with
\* MongoDB it can also raise at the ping, after the handle was assigned
ConnectOutcomes == {"ok", "raises"}
PingRaises == "ping_raises"
ReplayOutcomes == {"ok", "error"}
PersistOutcomes == {"ok", "zero", "error"}

Min(a, b) == IF a < b THEN a ELSE b

\* Python truthiness / isinstance(x, str) of the argument tokens
Truthy(x) == x # "" /\ x # NoneVal
IsStr(x) == x # NonStrId /\ x # NoneVal

\* str.startswith
startswith(s, p) == Len(s) >= Len(p) /\ SubSeq(s, 1, Len(p)) = p

\* the searched substrings that occur inside a word
Within(word) == IF word = "reasoning_content" THEN {"reasoning_content", "content"}
                ELSE {word}
\* str.find(sub) > -1
find(s, sub) == \E i \in 1..Len(s) : sub \in Within(s[i])
HasEventMarker(m) == find(m, "event:")
HasDataMarker(m) == find(m, "data:")
HasMessageChunk(m) == find(m, "message_chunk")
HasContent(m) == find(m, "content")
HasReasoningContent(m) == find(m, "reasoning_content")
HasFinishReason(m) == find(m, "finish_reason")

\* ---------------------------------------------------------------- state
\* checkpoint_saver, db_uri, mongo_db, postgres_conn: the manager's fields
\*   (a handle is TRUE when it is not None)
\* connect: history - how the attempt to connect went when the manager was
\*   constructed ("none" when __init__ attempted no connection)
\* store: the InMemoryStore, per namespace ("messages", thread_id) its items in
\*   insertion order
\* chat_streams, research_replays, langgraph_events: the collections / tables
\* pg_txn: the PostgreSQL connection's transaction status
\* last: the latest call, its arguments and what it returned
\* submitted, closed: history - the chunk texts accepted per thread, and how many
\*   of them had been accepted when the thread was last consolidated successfully
\*   (last, submitted and closed are kept for calls that run one at a time; of
\*   concurrent calls, calls holds the arguments and results)
\* budget: how many chunks, summary rows and event rows the callers produce at most
\* calls: the process_stream_message calls of concurrent callers, each with its
\*   position in the method and its local variables (empty while calls run one
\*   at a time)
\* relational: the records and the latest result of a second manager, connected
\*   to PostgreSQL, that is given the same backend operations as this one (kept
\*   only where the two variants are compared)
\* resources: the resource URIs handed to the FastGPT provider (none while the
\*   checkpoint module is exercised)
VARIABLES checkpoint_saver, db_uri, mongo_db, postgres_conn, connect,
          store, chat_streams, research_replays, langgraph_events,
          pg_txn, last, submitted, closed, budget, calls, relational, resources

vars == <<checkpoint_saver, db_uri, mongo_db, postgres_conn, connect,
          store, chat_streams, research_replays, langgraph_events,
          pg_txn, last, submitted, closed, budget, calls, relational, resources>>

config == <<checkpoint_saver, db_uri, mongo_db, postgres_conn, connect>>

\* ------------------------------------------------- InMemoryStore (dict)
cursor_key == <<"cursor", 0>>
chunk_key(i) == <<"chunk", i>>
CursorValue(i) == [isdict |-> TRUE, index |-> i, text |-> NoText]
ChunkValue(m) == [isdict |-> FALSE, index |-> 0, text |-> m]
Item(k, v) == [key |-> k, value |-> v]

StoreHas(ns, key) == \E i \in 1..Len(ns) : ns[i].key = key
StoreIdx(ns, key) == CHOOSE i \in 1..Len(ns) : ns[i].key = key
store_get(ns, key) == ns[StoreIdx(ns, key)].value
store_put_append(ns, key, value) == Append(ns, Item(key, value))
store_put(ns, key, value) ==
    IF StoreHas(ns, key)
    THEN [ns EXCEPT ![StoreIdx(ns, key)] = Item(key, value)]
    ELSE Append(ns, Item(key, value))
store_search(ns, limit) == SubSeq(ns, 1, Min(limit, Len(ns)))
\* the namespace after a search: InMemoryStore.search removes and changes nothing
after_search_evicting(ns) == <<>>
after_search(ns) == ns

\* store_namespace = ("messages", thread_id)
store_namespace_shared(thread_id) == "t1"
store_namespace(thread_id) == thread_id

\* ------------------------------------------------- tables / collections
Matching(tbl, tid) == {i \in 1..Len(tbl) : tbl[i].thread_id = tid}
Exists(tbl, tid) == Matching(tbl, tid) # {}
FirstMatch(tbl, tid) == CHOOSE i \in Matching(tbl, tid) : \A j \in Matching(tbl, tid) : i <= j
find_one(tbl, tid) == tbl[FirstMatch(tbl, tid)]

\* ------------------------------------------------- results of a call
NoCall == [ret |-> "None", raised |-> FALSE, index |-> -1,
           persisted |-> FALSE, upsertArg |-> <<>>, existed |-> FALSE, affected |-> -1,
           replayCalled |-> FALSE, replayCount |-> 0,
           touched |-> FALSE, caught |-> {}, upsertOutcome |-> "", drained |-> FALSE,
           text |-> <<>>, rows |-> <<>>, round |-> <<>>, order |-> <<>>]

Record(op, tid, m, f, out) ==
    [op |-> op, thread_id |-> tid, message |-> m, finish_reason |-> f] @@ out

EmptyDb == [store |-> [t \in ThreadIds |-> <<>>], cs |-> <<>>, rr |-> <<>>,
            ev |-> <<>>, txn |-> "idle"]
DbState == [store |-> store, cs |-> chat_streams, rr |-> research_replays,
            ev |-> langgraph_events, txn |-> pg_txn]

ReplayRow(tid, topic, style, n, ts) ==
    [thread_id |-> tid, research_topic |-> topic, report_style |-> style,
     messages |-> n, ts |-> ts]

\* collection.update_one: the first matching document only
update_one_skipped(tbl, tid, field, v) == tbl
update_one(tbl, tid, field, v) ==
    [tbl EXCEPT ![FirstMatch(tbl, tid)] = [@ EXCEPT ![field] = v]]

\* UPDATE ... WHERE thread_id = %s: every matching row
UpdateWhere_every_row(tbl, tid, field, v) ==
    [i \in 1..Len(tbl) |-> [tbl[i] EXCEPT ![field] = v]]
UpdateWhere(tbl, tid, field, v) ==
    [i \in 1..Len(tbl) |->
        IF tbl[i].thread_id = tid THEN [tbl[i] EXCEPT ![field] = v] ELSE tbl[i]]

\* if messages > 0: update the count of an existing summary, else insert one
is_update_never(messages) == FALSE
is_update_nonnegative(messages) == messages >= 0
is_update(messages) == messages > 0

\* log_research_replays, the MongoDB branch; o is what the backend does
log_research_replays_mongodb(d, thread_id, research_topic, report_style, messages, o) ==
    IF o = "error" THEN [d |-> d, touched |-> TRUE, caught |-> TRUE]
    ELSE IF is_update(messages) THEN
        IF Exists(d.rr, thread_id)
        THEN [d |-> [d EXCEPT !.rr = update_one(d.rr, thread_id, "messages", messages)],
              touched |-> TRUE, caught |-> FALSE]
        ELSE [d |-> d, touched |-> TRUE, caught |-> FALSE]
    ELSE [d |-> [d EXCEPT !.rr = Append(d.rr,
                    ReplayRow(thread_id, research_topic, report_style, messages, Len(d.rr) + 1))],
          touched |-> TRUE, caught |-> FALSE]

\* log_research_replays, the PostgreSQL branch
log_research_replays_postgresql(d, thread_id, research_topic, report_style, messages, o) ==
    IF d.txn = "aborted" \/ o = "error"
    THEN [d |-> [d EXCEPT !.txn = "aborted"], touched |-> TRUE, caught |-> TRUE]
    ELSE IF is_update(messages) THEN
        IF Exists(d.rr, thread_id)
        THEN [d |-> [d EXCEPT !.rr = UpdateWhere(d.rr, thread_id, "messages", messages)],
              touched |-> TRUE, caught |-> FALSE]
        ELSE [d |-> d, touched |-> TRUE, caught |-> FALSE]
    ELSE [d |-> [d EXCEPT !.rr = Append(d.rr,
                    ReplayRow(thread_id, research_topic, report_style, messages, Len(d.rr) + 1))],
          touched |-> TRUE, caught |-> FALSE]

\* ChatStreamManager.log_research_replays
ChatStreamManager_log_research_replays(d, thread_id, research_topic, report_style, messages, o) ==
    IF ~checkpoint_saver THEN [d |-> d, touched |-> FALSE, caught |-> FALSE]
    ELSE IF ~mongo_db /\ ~postgres_conn THEN [d |-> d, touched |-> FALSE, caught |-> FALSE]
    ELSE IF mongo_db
    THEN log_research_replays_mongodb(d, thread_id, research_topic, report_style, messages, o)
    ELSE log_research_replays_postgresql(d, thread_id, research_topic, report_style, messages, o)

ConversationDoc(tid, msgs) == [thread_id |-> tid, messages |-> msgs]

\* find_one / SELECT id ... fetchone of the conversation before the upsert
existing_document_always_absent(tbl, thread_id) == FALSE
existing_document(tbl, thread_id) == Exists(tbl, thread_id)

\* modified_count > 0 / affected_rows > 0
affected_ok_or_zero(n) == n >= 0
affected_ok(n) == n > 0

\* ChatStreamManager._persist_to_mongodb
_persist_to_mongodb(d, thread_id, messages, o) ==
    IF o = "error" THEN [d |-> d, ret |-> FALSE, existed |-> FALSE, affected |-> -1]
    ELSE IF existing_document(d.cs, thread_id) THEN
        LET modified_count == IF o = "zero" THEN 0 ELSE 1
        IN [d |-> IF modified_count = 0 THEN d
                  ELSE [d EXCEPT !.cs = update_one(d.cs, thread_id, "messages", messages)],
            ret |-> affected_ok(modified_count), existed |-> TRUE,
            affected |-> modified_count]
    ELSE [d |-> [d EXCEPT !.cs = Append(d.cs, ConversationDoc(thread_id, messages))],
          ret |-> TRUE, existed |-> FALSE, affected |-> 1]

\* ChatStreamManager._persist_to_postgresql
_persist_to_postgresql(d, thread_id, messages, o) ==
    IF d.txn = "aborted" \/ o = "error"
    THEN [d |-> [d EXCEPT !.txn = "idle"], ret |-> FALSE, existed |-> FALSE, affected |-> -1]
    ELSE IF existing_document(d.cs, thread_id) THEN
        LET affected_rows == IF o = "zero" THEN 0 ELSE 1
        IN [d |-> IF affected_rows = 0 THEN d
                  ELSE [d EXCEPT !.cs = UpdateWhere(d.cs, thread_id, "messages", messages)],
            ret |-> affected_ok(affected_rows), existed |-> TRUE,
            affected |-> affected_rows]
    ELSE [d |-> [d EXCEPT !.cs = Append(d.cs, ConversationDoc(thread_id, messages))],
          ret |-> affected_ok(1), existed |-> FALSE, affected |-> 1]

\* the chunk texts among the searched items (cursor metadata skipped)
RECURSIVE ExtractMessages(_)
ExtractMessages(memories) ==
    IF memories = <<>> THEN <<>>
    ELSE LET value == Head(memories).value
         IN IF ~value.isdict /\ value.text # NoText
            THEN <<value.text>> \o ExtractMessages(Tail(memories))
            ELSE ExtractMessages(Tail(memories))

\* limit of the store search: the chunks 0..final_index and the cursor
search_limit_index(final_index) == final_index
search_limit_short(final_index) == final_index + 1
search_limit(final_index) == final_index + 2

\* the drain of _persist_complete_conversation: the store search and the
\* extraction loop
drain(ns, final_index) ==
    LET memories == store_search(ns, search_limit(final_index))
    IN ExtractMessages(memories)

\* the count handed to log_research_replays: len(messages), not len(memories)
fragment_count_memories(messages) == Len(messages) + 1
fragment_count(messages) == Len(messages)

\* "if not messages"
no_messages_unchecked(messages) == FALSE
no_messages(messages) == messages = <<>>

\* ChatStreamManager._persist_complete_conversation from the drained messages on
persist_drained(d, thread_id, final_index, messages, ro, po) ==
    LET base == [NoCall EXCEPT !.index = final_index, !.drained = TRUE]
    IN IF no_messages(messages) THEN [d |-> d, out |-> [base EXCEPT !.ret = "False"]]
       ELSE IF ~checkpoint_saver THEN [d |-> d, out |-> [base EXCEPT !.ret = "False"]]
       ELSE LET r == ChatStreamManager_log_research_replays(d, thread_id, "", "",
                                                            fragment_count(messages), ro)
                logged == [base EXCEPT !.replayCalled = TRUE,
                                       !.replayCount = fragment_count(messages),
                                       !.order = <<"log_research_replays">>,
                                       !.touched = r.touched,
                                       !.caught = IF r.caught THEN {"summary"} ELSE {}]
            IN IF mongo_db THEN
                   LET p == _persist_to_mongodb(r.d, thread_id, messages, po)
                   IN [d |-> p.d,
                       out |-> [logged EXCEPT !.persisted = TRUE, !.upsertArg = messages,
                                              !.order = Append(@, "_persist_to_mongodb"),
                                              !.existed = p.existed, !.affected = p.affected,
                                              !.touched = TRUE,
                                              !.caught = @ \cup (IF p.affected = -1
                                                                 THEN {"upsert"} ELSE {}),
                                              !.ret = IF p.ret THEN "True" ELSE "False"]]
               ELSE IF postgres_conn THEN
                   LET p == _persist_to_postgresql(r.d, thread_id, messages, po)
                   IN [d |-> p.d,
                       out |-> [logged EXCEPT !.persisted = TRUE, !.upsertArg = messages,
                                              !.order = Append(@, "_persist_to_postgresql"),
                                              !.existed = p.existed, !.affected = p.affected,
                                              !.touched = TRUE,
                                              !.caught = @ \cup (IF p.affected = -1
                                                                 THEN {"upsert"} ELSE {}),
                                              !.ret = IF p.ret THEN "True" ELSE "False"]]
               ELSE [d |-> r.d, out |-> [logged EXCEPT !.ret = "False"]]

\* ChatStreamManager._persist_complete_conversation
_persist_complete_conversation(d, thread_id, final_index, ro, po) ==
    persist_drained([d EXCEPT !.store[store_namespace(thread_id)] = after_search(@)],
                    thread_id, final_index,
                    drain(d.store[store_namespace(thread_id)], final_index), ro, po)

\* the two validations at the head of process_stream_message
valid_thread_id(thread_id) == Truthy(thread_id) /\ IsStr(thread_id)
valid_message_unchecked(message) == TRUE
valid_message(message) == message # NoText

\* the index of the chunk being stored, from the cursor item
next_index_stuck(ns) ==
    IF StoreHas(ns, cursor_key) THEN store_get(ns, cursor_key).index ELSE 0
next_index_skipping(ns) ==
    IF StoreHas(ns, cursor_key) THEN store_get(ns, cursor_key).index + 2 ELSE 0
next_index(ns) ==
    IF StoreHas(ns, cursor_key) THEN store_get(ns, cursor_key).index + 1 ELSE 0

\* the index written to the cursor item: the index of the chunk being stored
cursor_written_next(current_index) == current_index + 1
cursor_written(current_index) == current_index

\* finish_reason in ("stop", "interrupt")
is_terminal_any(finish_reason) == finish_reason # ""
is_terminal(finish_reason) == finish_reason \in {"stop", "interrupt"}

\* ChatStreamManager.process_stream_message
process_stream_message(d, thread_id, message, finish_reason, ro, po) ==
    IF ~valid_thread_id(thread_id)
    THEN [d |-> d, out |-> [NoCall EXCEPT !.ret = "False"]]
    ELSE IF ~valid_message(message)
    THEN [d |-> d, out |-> [NoCall EXCEPT !.ret = "False"]]
    ELSE LET ns == d.store[store_namespace(thread_id)]
             current_index == next_index(ns)
             ns1 == store_put(ns, cursor_key, CursorValue(cursor_written(current_index)))
             ns2 == store_put(ns1, chunk_key(current_index), ChunkValue(message))
             d2 == [d EXCEPT !.store[store_namespace(thread_id)] = ns2]
         IN IF is_terminal(finish_reason)
            THEN _persist_complete_conversation(d2, thread_id, current_index, ro, po)
            ELSE [d |-> d2, out |-> [NoCall EXCEPT !.ret = "True", !.index = current_index]]

\* the event document / row, and its insertion (insert_one, INSERT INTO)
EventRow(thread_id, event, level, message, ts) ==
    [thread_id |-> thread_id, event |-> event, level |-> level, message |-> message,
     ts |-> ts]
insert_one_replacing(tbl, doc) == <<doc>>
insert_one(tbl, doc) == Append(tbl, doc)

\* log_graph_event, the MongoDB branch and the PostgreSQL branch
log_graph_event_mongodb(d, thread_id, event, level, message, o) ==
    IF o = "error" THEN [d |-> d, touched |-> TRUE, caught |-> TRUE]
    ELSE [d |-> [d EXCEPT !.ev = insert_one(d.ev,
                    EventRow(thread_id, event, level, message, Len(d.ev) + 1))],
          touched |-> TRUE, caught |-> FALSE]
log_graph_event_postgresql(d, thread_id, event, level, message, o) ==
    IF d.txn = "aborted" \/ o = "error"
    THEN [d |-> [d EXCEPT !.txn = "aborted"], touched |-> TRUE, caught |-> TRUE]
    ELSE [d |-> [d EXCEPT !.ev = insert_one(d.ev,
                    EventRow(thread_id, event, level, message, Len(d.ev) + 1))],
          touched |-> TRUE, caught |-> FALSE]

\* ChatStreamManager.log_graph_event
ChatStreamManager_log_graph_event(d, thread_id, event, level, message, o) ==
    IF ~checkpoint_saver THEN [d |-> d, touched |-> FALSE, caught |-> FALSE]
    ELSE IF ~mongo_db /\ ~postgres_conn THEN [d |-> d, touched |-> FALSE, caught |-> FALSE]
    ELSE IF mongo_db THEN log_graph_event_mongodb(d, thread_id, event, level, message, o)
    ELSE log_graph_event_postgresql(d, thread_id, event, level, message, o)

\* "".join(valid_messages)
RECURSIVE Join(_)
Join(msgs) == IF msgs = <<>> THEN NoText ELSE Head(msgs) \o Join(Tail(msgs))

\* the filter loop of _process_stream_messages
RECURSIVE valid_messages_any_frame(_)
valid_messages_any_frame(decoded) ==
    IF decoded = <<>> THEN <<>>
    ELSE LET message == Head(decoded)
             rest == valid_messages_any_frame(Tail(decoded))
         IN IF ~HasEventMarker(message) /\ ~HasDataMarker(message) THEN rest
            ELSE <<message>> \o rest
RECURSIVE valid_messages(_)
valid_messages(decoded) ==
    IF decoded = <<>> THEN <<>>
    ELSE LET message == Head(decoded)
             rest == valid_messages(Tail(decoded))
         IN IF ~HasEventMarker(message) /\ ~HasDataMarker(message) THEN rest
            ELSE IF HasMessageChunk(message)
                 THEN IF HasContent(message) \/ HasReasoningContent(message)
                            \/ HasFinishReason(message)
                      THEN <<message>> \o rest
                      ELSE rest
                 ELSE <<message>> \o rest

\* ChatStreamManager._process_stream_messages on a stored conversation
_process_stream_messages(conversation) ==
    IF conversation.messages # <<>> THEN Join(valid_messages(conversation.messages))
    ELSE <<>>

\* get_messages_by_id, the MongoDB branch and the PostgreSQL branch
get_messages_by_id_mongodb(d, thread_id, o) ==
    IF o = "error"
    THEN [d |-> d, out |-> [NoCall EXCEPT !.ret = "Raised", !.raised = TRUE, !.touched = TRUE]]
    ELSE IF ~Exists(d.cs, thread_id)
    THEN [d |-> d, out |-> [NoCall EXCEPT !.touched = TRUE]]
    ELSE [d |-> d, out |-> [NoCall EXCEPT !.ret = "Str", !.touched = TRUE,
                   !.text = _process_stream_messages(find_one(d.cs, thread_id))]]
get_messages_by_id_postgresql(d, thread_id, o) ==
    IF d.txn = "aborted" \/ o = "error"
    THEN [d |-> [d EXCEPT !.txn = "aborted"],
          out |-> [NoCall EXCEPT !.ret = "Raised", !.raised = TRUE, !.touched = TRUE]]
    ELSE IF ~Exists(d.cs, thread_id)
    THEN [d |-> d, out |-> [NoCall EXCEPT !.touched = TRUE]]
    ELSE [d |-> d, out |-> [NoCall EXCEPT !.ret = "Str", !.touched = TRUE,
                   !.text = _process_stream_messages(find_one(d.cs, thread_id))]]

\* ChatStreamManager.get_messages_by_id
get_messages_by_id(d, thread_id, o) ==
    IF ~checkpoint_saver THEN [d |-> d, out |-> NoCall]
    ELSE IF ~mongo_db /\ ~postgres_conn THEN [d |-> d, out |-> NoCall]
    ELSE IF mongo_db THEN get_messages_by_id_mongodb(d, thread_id, o)
    ELSE get_messages_by_id_postgresql(d, thread_id, o)

\* the orders sort(sort, -1) / ORDER BY sort DESC may return (ties in any order)
Perms(n) == {p \in [1..n -> 1..n] : \A i, j \in 1..n : i # j => p[i] # p[j]}
SortedDesc(tbl, sort) ==
    {p \in Perms(Len(tbl)) :
        \A i, j \in 1..Len(tbl) : i < j => tbl[p[i]][sort] >= tbl[p[j]][sort]}
Limited(tbl, p, limit) == [i \in 1..Min(limit, Len(tbl)) |-> tbl[p[i]]]
\* Cursor.limit(limit) of pymongo: a limit of 0 is no limit
cursor_limit(tbl, limit) == IF limit = 0 THEN Len(tbl) ELSE limit

\* get_stream_messages, the MongoDB branch and the PostgreSQL branch; p is the
\* order the backend returns
get_stream_messages_mongodb(d, limit, sort, p, o) ==
    IF o = "error"
    THEN [d |-> d, out |-> [NoCall EXCEPT !.ret = "List", !.touched = TRUE,
                                          !.caught = {"list"}]]
    ELSE [d |-> d, out |-> [NoCall EXCEPT !.ret = "List", !.touched = TRUE,
                                          !.rows = Limited(d.rr, p, cursor_limit(d.rr, limit))]]
get_stream_messages_postgresql(d, limit, sort, p, o) ==
    IF d.txn = "aborted" \/ o = "error"
    THEN [d |-> [d EXCEPT !.txn = "aborted"],
          out |-> [NoCall EXCEPT !.ret = "List", !.touched = TRUE,
                                 !.caught = {"list"}]]
    ELSE [d |-> d, out |-> [NoCall EXCEPT !.ret = "List", !.touched = TRUE,
                                          !.rows = Limited(d.rr, p, limit)]]

\* ChatStreamManager.get_stream_messages
get_stream_messages(d, limit, sort, p, o) ==
    IF ~checkpoint_saver THEN [d |-> d, out |-> [NoCall EXCEPT !.ret = "List"]]
    ELSE IF ~mongo_db /\ ~postgres_conn THEN [d |-> d, out |-> [NoCall EXCEPT !.ret = "List"]]
    ELSE IF mongo_db THEN get_stream_messages_mongodb(d, limit, sort, p, o)
    ELSE get_stream_messages_postgresql(d, limit, sort, p, o)

\* number of chunk texts accepted so far, over all threads
RECURSIVE TotalSubmitted(_, _)
TotalSubmitted(sub, ts) ==
    IF ts = {} THEN 0
    ELSE LET t == CHOOSE x \in ts : TRUE
         IN Len(sub[t]) + TotalSubmitted(sub, ts \ {t})

\* the chunk texts accepted for a thread since its last successful consolidation
OpenRound(t) == SubSeq(submitted[t], closed[t] + 1, Len(submitted[t]))

Commit(d, rec) ==
    LET accepted == rec.op \in {"process_stream_message", "chat_stream_message"}
                        /\ rec.index >= 0
        sub == IF accepted
               THEN [submitted EXCEPT ![rec.thread_id] = Append(@, rec.message)]
               ELSE submitted
    IN /\ accepted => TotalSubmitted(sub, ThreadIds) <= budget.chunks
       /\ Len(d.rr) <= budget.replays
       /\ Len(d.ev) <= budget.events
       /\ store' = d.store
       /\ chat_streams' = d.cs
       /\ research_replays' = d.rr
       /\ langgraph_events' = d.ev
       /\ pg_txn' = d.txn
       /\ last' = rec
       /\ submitted' = sub
       /\ closed' = IF accepted /\ rec.persisted /\ rec.ret = "True"
                    THEN [closed EXCEPT ![rec.thread_id] = Len(sub[rec.thread_id])]
                    ELSE closed
       /\ UNCHANGED <<config, budget, relational, resources, calls>>

\* what the backend can do, when the call reaches it; a statement sent in an
\* aborted transaction has one outcome, it raises
Connected == checkpoint_saver /\ (mongo_db \/ postgres_conn)
BackendChooses == Connected /\ pg_txn = "idle"
BackendOutcomes == IF BackendChooses THEN ReplayOutcomes ELSE {"ok"}
ReachesBackend(thread_id, message, finish_reason) ==
    /\ BackendChooses
    /\ valid_thread_id(thread_id) /\ valid_message(message)
    /\ is_terminal(finish_reason)
UpsertOutcomes(thread_id, message, finish_reason) ==
    IF ~ReachesBackend(thread_id, message, finish_reason) THEN {"ok"}
    ELSE IF Exists(chat_streams, thread_id) THEN PersistOutcomes
    ELSE PersistOutcomes \ {"zero"}
SummaryOutcomes(thread_id, message, finish_reason) ==
    IF ReachesBackend(thread_id, message, finish_reason) THEN ReplayOutcomes ELSE {"ok"}

\* the message arguments tried in the current state: the empty text and the next
\* unused chunk text
MessageArgs ==
    {NoText} \cup {MessagePool[i] :
                 i \in {TotalSubmitted(submitted, ThreadIds) + 1} \cap 1..Len(MessagePool)}

\* ------------------------------------------------- calls on the manager
\* the arguments a call has read when it returns (the validations return early)
ArgsRead(thread_id, message, finish_reason) ==
    IF ~valid_thread_id(thread_id) THEN <<thread_id, NoText, "">>
    ELSE IF ~valid_message(message) THEN <<thread_id, message, "">>
    ELSE <<thread_id, message, finish_reason>>

\* calls that differ only in arguments they never read are one call
SubmitArgs ==
    {ArgsRead(thread_id, message, finish_reason) :
        thread_id \in ThreadArgs, message \in MessageArgs, finish_reason \in FinishReasons}

SubmitVia(op) ==
    \E a \in SubmitArgs :
      \E ro \in SummaryOutcomes(a[1], a[2], a[3]), po \in UpsertOutcomes(a[1], a[2], a[3]) :
       \E r \in {process_stream_message(DbState, a[1], a[2], a[3], ro, po)} :
        LET round == IF r.out.index >= 0 THEN OpenRound(a[1]) \o <<a[2]>> ELSE <<>>
            upsertOutcome == IF r.out.persisted THEN po ELSE ""
        IN Commit(r.d, Record(op, a[1], a[2], a[3],
                              [r.out EXCEPT !.round = round, !.upsertOutcome = upsertOutcome]))

ProcessStreamMessage == SubmitVia("process_stream_message")

LogResearchReplays ==
    \E thread_id \in ThreadIds, topic \in Topics, style \in Styles, messages \in CountArgs,
       o \in BackendOutcomes :
        LET r == ChatStreamManager_log_research_replays(DbState, thread_id, topic, style, messages, o)
        IN Commit(r.d, Record("ChatStreamManager.log_research_replays", thread_id, NoText, "",
                              [NoCall EXCEPT !.touched = r.touched, !.replayCount = messages,
                                             !.caught = IF r.caught THEN {"summary"} ELSE {}]))

LogGraphEvent ==
    \E thread_id \in EventThreads, event \in EventNames, level \in Levels, o \in BackendOutcomes :
        LET r == ChatStreamManager_log_graph_event(DbState, thread_id, event, level, "{}", o)
        IN Commit(r.d, Record("ChatStreamManager.log_graph_event", thread_id, NoText, "",
                              [NoCall EXCEPT !.touched = r.touched,
                                             !.caught = IF r.caught THEN {"event"} ELSE {}]))

GetMessagesById ==
    \E thread_id \in ThreadIds, o \in BackendOutcomes :
        LET r == get_messages_by_id(DbState, thread_id, o)
        IN Commit(r.d, Record("get_messages_by_id", thread_id, NoText, "", r.out))

GetStreamMessages ==
    \E limit \in LimitArgs, sort \in SortArgs, o \in BackendOutcomes :
      \E p \in SortedDesc(research_replays, sort) :
        LET r == get_stream_messages(DbState, limit, sort, p, o)
        IN Commit(r.d, Record("get_stream_messages", "", NoText, "", r.out))

\* ------------------------------------------------- module-level wrappers
chat_stream_message_unguarded == SubmitVia("chat_stream_message")
chat_stream_message ==
    IF checkpoint_saver
    THEN ProcessStreamMessage
    ELSE Commit(DbState, Record("chat_stream_message", "", NoText, "",
                                [NoCall EXCEPT !.ret = "False"]))

list_conversations ==
    IF checkpoint_saver
    THEN GetStreamMessages
    ELSE Commit(DbState, Record("list_conversations", "", NoText, "",
                                [NoCall EXCEPT !.ret = "List"]))

get_conversation ==
    IF checkpoint_saver
    THEN GetMessagesById
    ELSE \E thread_id \in ThreadIds :
            Commit(DbState, Record("get_conversation", thread_id, NoText, "",
                                   [NoCall EXCEPT !.ret = "EmptyStr"]))

log_graph_event ==
    IF checkpoint_saver
    THEN LogGraphEvent
    ELSE \E thread_id \in EventThreads :
            Commit(DbState, Record("log_graph_event", thread_id, NoText, "",
                                   [NoCall EXCEPT !.ret = "EmptyStr"]))

log_research_replays ==
    IF checkpoint_saver
    THEN LogResearchReplays
    ELSE \E thread_id \in ThreadIds, messages \in CountArgs :
            Commit(DbState, Record("log_research_replays", thread_id, NoText, "",
                                   [NoCall EXCEPT !.ret = "EmptyStr", !.replayCount = messages]))

\* ------------------------------------------------- construction
\* ChatStreamManager.__init__ with _init_mongodb / _init_postgresql: which handle
\* is set, for the flag, the URI and the outcome c of connecting
init_mongo_db_default(cs, uri, c) == cs /\ c = "ok"
init_mongo_db(cs, uri, c) ==
    cs /\ startswith(uri, <<"mongodb", "://">>) /\ c \in {"ok", PingRaises}
init_postgres_conn_any_scheme(cs, uri, c) == cs /\ c = "ok"
init_postgres_conn(cs, uri, c) ==
    /\ cs
    /\ ~startswith(uri, <<"mongodb", "://">>)
    /\ startswith(uri, <<"postgresql", "://">>) \/ startswith(uri, <<"postgres", "://">>)
    /\ c = "ok"

\* whether __init__ attempts a connection, and what is known of it afterwards
attempts_connection(cs, uri) ==
    /\ cs
    /\ \/ startswith(uri, <<"mongodb", "://">>)
       \/ startswith(uri, <<"postgresql", "://">>)
       \/ startswith(uri, <<"postgres", "://">>)
connect_outcome(cs, uri, c) == IF attempts_connection(cs, uri) THEN c ELSE "none"

\* the manager as constructed, and the empty store and database. A manager
\* whose ping raised is, but for connect, a manager connected to MongoDB (whose
\* operations may raise at every call): Spec starts from the other outcomes.
InitManager ==
    \E cs \in BOOLEAN, uri \in DbUris, c \in ConnectOutcomes :
         /\ checkpoint_saver = cs
         /\ db_uri = uri
         /\ mongo_db = init_mongo_db(cs, uri, c)
         /\ postgres_conn = init_postgres_conn(cs, uri, c)
         /\ connect = connect_outcome(cs, uri, c)
InitEmpty ==
    /\ relational = <<>>
    /\ resources = <<>>
    /\ store = [t \in ThreadIds |-> <<>>]
    /\ chat_streams = <<>>
    /\ research_replays = <<>>
    /\ langgraph_events = <<>>
    /\ pg_txn = "idle"
    /\ last = Record("init", "", NoText, "", NoCall)
    /\ submitted = [t \in ThreadIds |-> <<>>]
    /\ closed = [t \in ThreadIds |-> 0]

Init ==
    /\ InitManager
    /\ InitEmpty
    /\ calls = <<>>
    /\ budget = [chunks |-> MaxChunks, replays |-> MaxReplays, events |-> MaxEvents]

\* The public entry points are the module-level functions. With the flag set
\* each of them is the call on the manager, so the manager's methods are called
\* directly only where that differs: on a manager built with the flag unset.
DirectCalls ==
    /\ ~checkpoint_saver
    /\ \/ ProcessStreamMessage
       \/ LogResearchReplays
       \/ LogGraphEvent
       \/ GetMessagesById
       \/ GetStreamMessages

Next ==
    \/ chat_stream_message
    \/ list_conversations
    \/ get_conversation
    \/ log_graph_event
    \/ log_research_replays
    \/ DirectCalls

Spec == Init /\ [][Next]_vars

\* ------------------------------------------------- consolidation called on its own
\* process_stream_message is the only caller of _persist_complete_conversation
\* and always buffers a chunk first. Here the method is also called by itself,
\* for any thread and final index, whatever the thread has buffered.
ConsolidateCall == "ChatStreamManager._persist_complete_conversation"
PersistCompleteConversation ==
    \E thread_id \in ThreadIds, final_index \in 0..MaxChunks, ro \in ReplayOutcomes :
      \E po \in IF Exists(chat_streams, thread_id)
                THEN PersistOutcomes ELSE PersistOutcomes \ {"zero"} :
        LET r == _persist_complete_conversation(DbState, thread_id, final_index, ro, po)
        IN Commit(r.d, Record(ConsolidateCall, thread_id, NoText, "", r.out))

NextConsolidate ==
    \/ ProcessStreamMessage
    \/ PersistCompleteConversation

SpecConsolidate == Init /\ [][NextConsolidate]_vars

\* ------------------------------------------------- reading back any conversation
\* The chunk texts a stored conversation is made of are drawn from a pool of
\* texts with every combination of marker, frame type and field, instead of
\* MessagePool; the manager has consolidated them for thread "t1".
MaxFragments == 2
Markers == {<<>>, <<"event:">>, <<"data:">>}
FrameTypes == {<<>>, <<"message_chunk">>}
Fields == {<<>>, <<"content">>, <<"reasoning_content">>, <<"finish_reason">>, <<"other">>}
Fragments == {m \o t \o f : m \in Markers, t \in FrameTypes, f \in Fields} \ {NoText}
DocExample == << <<"event:", "x", "data:", "1">>,
                <<"event:", "message_chunk", "data:", "content", "hi">>,
                <<"event:", "message_chunk", "data:", "other">>,
                <<"plain", "text">> >>
FragmentLists ==
    UNION {[1..n -> Fragments] : n \in 1..MaxFragments} \cup {DocExample}

\* the state after the chunks F were submitted for thread_id, the last of them
\* with finish_reason "stop"
RECURSIVE SubmitAll(_, _, _)
SubmitAll(d, thread_id, F) ==
    IF F = <<>> THEN d
    ELSE SubmitAll(process_stream_message(d, thread_id, Head(F),
                       IF Len(F) = 1 THEN "stop" ELSE "tool_calls", "ok", "ok").d,
                   thread_id, Tail(F))

InitFilter ==
    /\ checkpoint_saver = TRUE
    /\ db_uri \in {<<"mongodb", "://", "h">>, <<"postgresql", "://", "h">>}
    /\ mongo_db = init_mongo_db(TRUE, db_uri, "ok")
    /\ postgres_conn = init_postgres_conn(TRUE, db_uri, "ok")
    /\ connect = "ok"
    /\ relational = <<>>
    /\ resources = <<>>
    /\ \E F \in FragmentLists :
         LET d == SubmitAll([store |-> [t \in ThreadIds |-> <<>>], cs |-> <<>>,
                             rr |-> <<>>, ev |-> <<>>, txn |-> "idle"], "t1", F)
         IN /\ store = d.store
            /\ chat_streams = d.cs
            /\ research_replays = d.rr
            /\ langgraph_events = d.ev
            /\ pg_txn = d.txn
            /\ submitted = [t \in ThreadIds |-> IF t = "t1" THEN F ELSE <<>>]
            /\ closed = [t \in ThreadIds |-> IF t = "t1" THEN Len(F) ELSE 0]
    /\ calls = <<>>
    /\ last = Record("init", "", NoText, "", NoCall)
    /\ budget = [chunks |-> 0, replays |-> 0, events |-> 0]

NextFilter == get_conversation

SpecFilter == InitFilter /\ [][NextFilter]_vars

\* ------------------------------------------------- the summaries on their own
\* log_research_replays and list_conversations alone, with room for more summary
\* rows than under Spec
MaxSummaries == 2
InitReplays ==
    /\ InitManager
    /\ InitEmpty
    /\ calls = <<>>
    /\ budget = [chunks |-> 0, replays |-> MaxSummaries, events |-> 0]

NextReplays ==
    \/ log_research_replays
    \/ list_conversations

SpecReplays == InitReplays /\ [][NextReplays]_vars

\* ------------------------------------------------- the loggers after any startup
\* log_graph_event and log_research_replays on a manager whose connection
\* attempt ended in any of the ways it can: _init_mongodb assigns mongo_db
\* before it pings, so a ping that raises leaves the handle set.
StartupOutcomes(uri) ==
    IF startswith(uri, <<"mongodb", "://">>) THEN ConnectOutcomes \cup {PingRaises}
    ELSE ConnectOutcomes
InitStartup ==
    /\ \E cs \in BOOLEAN, uri \in DbUris : \E c \in StartupOutcomes(uri) :
         /\ checkpoint_saver = cs
         /\ db_uri = uri
         /\ mongo_db = init_mongo_db(cs, uri, c)
         /\ postgres_conn = init_postgres_conn(cs, uri, c)
         /\ connect = connect_outcome(cs, uri, c)
    /\ InitEmpty
    /\ calls = <<>>
    /\ budget = [chunks |-> 0, replays |-> MaxSummaries, events |-> MaxEvents]

NextStartup ==
    \/ log_graph_event
    \/ log_research_replays

SpecStartup == InitStartup /\ [][NextStartup]_vars

\* ------------------------------------------------- every call after any startup
\* All the calls of Spec, on a manager built from any of the URI schemes
\* __init__ tells apart and with any outcome of the connection attempt.
MaxBackendChunks == 1
BackendUris == DbUris \cup { <<"postgres", "://", "h">> }
InitBackend ==
    /\ \E cs \in BOOLEAN, uri \in BackendUris : \E c \in StartupOutcomes(uri) :
         /\ checkpoint_saver = cs
         /\ db_uri = uri
         /\ mongo_db = init_mongo_db(cs, uri, c)
         /\ postgres_conn = init_postgres_conn(cs, uri, c)
         /\ connect = connect_outcome(cs, uri, c)
    /\ InitEmpty
    /\ calls = <<>>
    /\ budget = [chunks |-> MaxBackendChunks, replays |-> MaxReplays, events |-> MaxEvents]

SpecBackend == InitBackend /\ [][Next]_vars

\* ------------------------------------------------- the two variants side by side
\* The backend operations of the manager, connected to MongoDB, are each given
\* as well to a second manager connected to PostgreSQL; no backend raises.
ConversationLists == {<<MessagePool[2]>>, <<MessagePool[2], MessagePool[3]>>}
RelationalDb == [store |-> store, cs |-> relational.cs, rr |-> relational.rr,
                 ev |-> relational.ev, txn |-> relational.txn]
PersistResult(r) ==
    [NoCall EXCEPT !.ret = IF r.ret THEN "True" ELSE "False", !.touched = TRUE,
                   !.existed = r.existed, !.affected = r.affected]
LogResult(r) == [NoCall EXCEPT !.touched = r.touched]

Both(op, thread_id, dd, out, dr, outr) ==
    /\ Len(dd.rr) <= budget.replays /\ Len(dr.rr) <= budget.replays
    /\ Len(dd.ev) <= budget.events /\ Len(dr.ev) <= budget.events
    /\ chat_streams' = dd.cs
    /\ research_replays' = dd.rr
    /\ langgraph_events' = dd.ev
    /\ pg_txn' = dd.txn
    /\ last' = Record(op, thread_id, NoText, "", out)
    /\ relational' = [cs |-> dr.cs, rr |-> dr.rr, ev |-> dr.ev, txn |-> dr.txn, out |-> outr]
    /\ UNCHANGED <<config, store, submitted, closed, budget, calls, resources>>

\* _persist_to_mongodb / _persist_to_postgresql
upsertConversation ==
    \E thread_id \in ThreadIds, messages \in ConversationLists :
        LET m == _persist_to_mongodb(DbState, thread_id, messages, "ok")
            r == _persist_to_postgresql(RelationalDb, thread_id, messages, "ok")
        IN Both("upsertConversation", thread_id, m.d, PersistResult(m), r.d, PersistResult(r))

\* the two branches of log_graph_event
appendEvent ==
    \E thread_id \in EventThreads, event \in EventNames, level \in Levels :
        LET m == log_graph_event_mongodb(DbState, thread_id, event, level, "{}", "ok")
            r == log_graph_event_postgresql(RelationalDb, thread_id, event, level, "{}", "ok")
        IN Both("appendEvent", thread_id, m.d, LogResult(m), r.d, LogResult(r))

\* the two branches of log_research_replays
upsertReplaySummary ==
    \E thread_id \in ThreadIds, topic \in Topics, style \in Styles, messages \in CountArgs :
        LET m == log_research_replays_mongodb(DbState, thread_id, topic, style, messages, "ok")
            r == log_research_replays_postgresql(RelationalDb, thread_id, topic, style,
                                                 messages, "ok")
        IN Both("upsertReplaySummary", thread_id,
                m.d, [LogResult(m) EXCEPT !.replayCount = messages],
                r.d, [LogResult(r) EXCEPT !.replayCount = messages])

\* the two branches of get_messages_by_id
fetchConversation ==
    \E thread_id \in ThreadIds :
        LET m == get_messages_by_id_mongodb(DbState, thread_id, "ok")
            r == get_messages_by_id_postgresql(RelationalDb, thread_id, "ok")
        IN Both("fetchConversation", thread_id, m.d, m.out, r.d, r.out)

\* the two branches of get_stream_messages; among rows that compare equal both
\* backends are taken to return the same order wherever that order is one the
\* PostgreSQL table admits
ListLimits == LimitArgs \cup {0}
ListArgs(limit, sort) == [limit |-> limit, sort |-> sort]
listReplaySummaries ==
    \E limit \in ListLimits, sort \in SortArgs :
      \E p \in SortedDesc(research_replays, sort), q \in SortedDesc(relational.rr, sort) :
        /\ p \in SortedDesc(relational.rr, sort) => q = p
        /\ LET m == get_stream_messages_mongodb(DbState, limit, sort, p, "ok")
               r == get_stream_messages_postgresql(RelationalDb, limit, sort, q, "ok")
           IN Both("listReplaySummaries", "", m.d, ListArgs(limit, sort) @@ m.out,
                   r.d, r.out)

InitVariants ==
    /\ checkpoint_saver = TRUE
    /\ db_uri = <<"mongodb", "://", "h">>
    /\ mongo_db = init_mongo_db(TRUE, db_uri, "ok")
    /\ postgres_conn = init_postgres_conn(TRUE, db_uri, "ok")
    /\ connect = "ok"
    /\ store = [t \in ThreadIds |-> <<>>]
    /\ chat_streams = <<>>
    /\ research_replays = <<>>
    /\ langgraph_events = <<>>
    /\ pg_txn = "idle"
    /\ last = Record("init", "", NoText, "", NoCall)
    /\ submitted = [t \in ThreadIds |-> <<>>]
    /\ closed = [t \in ThreadIds |-> 0]
    /\ calls = <<>>
    /\ budget = [chunks |-> 0, replays |-> MaxSummaries, events |-> MaxEvents]
    /\ relational = [cs |-> <<>>, rr |-> <<>>, ev |-> <<>>, txn |-> "idle", out |-> NoCall]
    /\ resources = <<>>

NextVariants ==
    \/ upsertConversation
    \/ appendEvent
    \/ upsertReplaySummary
    \/ fetchConversation
    \/ listReplaySummaries

SpecVariants == InitVariants /\ [][NextVariants]_vars

\* ------------------------------------------------- rag/fastgpt.py: parse_uri
\* A URI is the sequence of its names and separators; a str is the sequence of
\* its names, "" the empty sequence. Names are alphanumeric.
MaxIds == 2
IdPool == <<"abc", "d2", "x9">>
Separators == {"://", "/", "#"}
DatasetIds == {"dataset", "collection"} \cup {IdPool[i] : i \in 1..MaxIds}
CollectionIds == {"collection", "c1"} \cup {IdPool[i] : i \in 1..MaxIds}
DocumentIds == {"doc"}
Fragment == {<<>>} \cup {<<"#", doc>> : doc \in DocumentIds}
DatasetUri(dataset_id) == <<"rag", "://", "dataset", "/", dataset_id>>
CollectionUri(dataset_id, collection_id) ==
    DatasetUri(dataset_id) \o <<"/", "collection", "/", collection_id>>
Uris ==
    {DatasetUri(ds) \o f : ds \in DatasetIds, f \in Fragment}
    \cup {CollectionUri(ds, c) \o f : ds \in DatasetIds, c \in CollectionIds, f \in Fragment}
    \cup {<<"rag", "://", ds>> \o f : ds \in DatasetIds, f \in Fragment}
    \cup {<<"http", "://", "dataset", "/", ds>> \o f : ds \in DatasetIds, f \in Fragment}
    \cup {<<ds>> : ds \in DatasetIds} \cup {<<"/", ds>> : ds \in DatasetIds}
    \cup {<<ds, "/", "x">> : ds \in DatasetIds}

\* the position of the first tok in s, 0 when there is none
IndexOf(s, tok) ==
    IF \E i \in 1..Len(s) : s[i] = tok
    THEN CHOOSE i \in 1..Len(s) : s[i] = tok /\ \A j \in 1..(i - 1) : s[j] # tok
    ELSE 0

\* urllib.parse.urlparse: scheme, netloc, path and fragment
urlparse(uri) ==
    LET has_scheme == Len(uri) >= 2 /\ uri[2] = "://" /\ uri[1] \notin Separators
        rest == IF has_scheme THEN SubSeq(uri, 3, Len(uri)) ELSE uri
        hash == IndexOf(rest, "#")
        url == IF hash = 0 THEN rest ELSE SubSeq(rest, 1, hash - 1)
        slash == IndexOf(url, "/")
    IN [scheme |-> IF has_scheme THEN uri[1] ELSE "",
        netloc |-> IF ~has_scheme THEN <<>>
                   ELSE IF slash = 0 THEN url ELSE SubSeq(url, 1, slash - 1),
        path |-> IF ~has_scheme THEN url
                 ELSE IF slash = 0 THEN <<>> ELSE SubSeq(url, slash, Len(url)),
        fragment |-> IF hash = 0 THEN <<>> ELSE SubSeq(rest, hash + 1, Len(rest))]

\* str.strip("/")
RECURSIVE strip(_)
strip(s) ==
    IF s = <<>> THEN s
    ELSE IF Head(s) = "/" THEN strip(Tail(s))
    ELSE IF s[Len(s)] = "/" THEN strip(SubSeq(s, 1, Len(s) - 1))
    ELSE s

\* str.split("/")
RECURSIVE split(_)
split(s) ==
    LET slash == IndexOf(s, "/")
    IN IF slash = 0 THEN <<s>>
       ELSE <<SubSeq(s, 1, slash - 1)>> \o split(SubSeq(s, slash + 1, Len(s)))

\* re.match(r'^[a-zA-Z0-9]+$', s)
is_alphanumeric(s) == s # <<>> /\ \A i \in 1..Len(s) : s[i] \notin Separators

\* None where a str is expected: told from every str, "" included
NoneStr == <<NoneVal>>
Parsed(dataset_id, collection_id, document_id) ==
    [raised |-> FALSE, dataset_id |-> dataset_id, collection_id |-> collection_id,
     document_id |-> document_id]
ValueError == [raised |-> TRUE, dataset_id |-> NoneStr, collection_id |-> NoneStr,
               document_id |-> NoneStr]

\* parse_uri
parse_uri(uri) ==
    LET parsed == urlparse(uri)
    IN IF parsed.scheme # "rag" \/ ~startswith(uri, <<"rag", "://">>)
       THEN IF is_alphanumeric(strip(uri)) THEN Parsed(strip(uri), NoneStr, NoneStr)
            ELSE IF startswith(uri, <<"/">>) /\ is_alphanumeric(strip(uri))
            THEN Parsed(strip(uri), NoneStr, NoneStr)
            ELSE ValueError
       ELSE LET path_parts == split(strip(parsed.path))
            IN IF Len(path_parts) = 1
               THEN Parsed(path_parts[1], NoneStr, parsed.fragment)
               ELSE IF Len(path_parts) >= 2 /\ path_parts[1] = <<"dataset">>
               THEN Parsed(path_parts[2],
                           IF Len(path_parts) >= 4 /\ path_parts[3] = <<"collection">>
                           THEN path_parts[4] ELSE NoneStr,
                           parsed.fragment)
               ELSE ValueError

\* ------------------------------------------------- rag/fastgpt.py: FastGPTProvider
MaxResources == 2
\* a request to the FastGPT API succeeds, or fails (an exception, a status or a
\* code other than 200)
RequestOutcomes == {"ok", "fails"}
\* a URI that parse_uri reads with a collection id
NestedCollectionUri(dataset_id, collection_id) ==
    <<"rag", "://", "fastgpt", "/", "dataset", "/", dataset_id,
      "/", "collection", "/", collection_id>>
ResourceUris ==
    {u \o f : u \in {DatasetUri(IdPool[1]), NestedCollectionUri(IdPool[1], "c1")},
              f \in Fragment}
    \cup {CollectionUri(IdPool[1], "c1"), <<"http", "://", "dataset", "/", IdPool[1]>>}
RECURSIVE Lists(_, _)
Lists(S, n) ==
    IF n = 0 THEN {<<>>}
    ELSE Lists(S, n - 1) \cup {Append(l, x) : l \in {k \in Lists(S, n - 1) : Len(k) = n - 1},
                                              x \in S}

\* list_resources: one resource per dataset of the response that has an id
NoId == ""
RECURSIVE list_resources(_)
list_resources(datasets) ==
    IF datasets = <<>> THEN <<>>
    ELSE IF Head(datasets) = NoId THEN list_resources(Tail(datasets))
    ELSE <<DatasetUri(Head(datasets))>> \o list_resources(Tail(datasets))

\* "if document_id: ... elif collection_id: ... else: ..."
truthy(s) == s # NoneStr /\ s # <<>>
route_collection_first(p) ==
    IF truthy(p.collection_id) THEN "collection"
    ELSE IF truthy(p.document_id) THEN "document" ELSE "dataset"
route(p) ==
    IF truthy(p.document_id) THEN "document"
    ELSE IF truthy(p.collection_id) THEN "collection" ELSE "dataset"

Request(api, id) == [api |-> api, id |-> id]
Doc(i, id, title) == [resource |-> i, id |-> id, title |-> title]
Fetched(documents, requests) == [documents |-> documents, requests |-> requests]

\* the three fetches: the requests made and the documents returned, for the
\* outcome o of the retrieval request (detail: of the collection detail request)
_fetch_single_data_detail(i, document_id, o) ==
    Fetched(IF o = "ok" THEN <<Doc(i, document_id, "sourceName")>> ELSE <<>>,
            <<Request("data_detail", document_id)>>)
_fetch_collection_data_list(i, collection_id, o, detail) ==
    Fetched(IF o = "ok"
            THEN <<Doc(i, <<"item">>, IF detail = "ok" THEN "collection" ELSE "resource")>>
            ELSE <<>>,
            <<Request("collection_detail", collection_id),
              Request("collection_data_list", collection_id)>>)
_fetch_from_dataset(i, dataset_id, o) ==
    Fetched(IF o = "ok" THEN <<Doc(i, <<"doc1">>, "doc_name"), Doc(i, <<"doc2">>, "doc_name")>>
            ELSE <<>>,
            <<Request("retrieve", dataset_id)>>)

\* "except Exception" around the body of the loop: what parse_uri raises does
\* not leave the loop
propagates_uncaught(p) == p.raised
propagates(p) == FALSE

\* the body of the loop of query_relevant_documents for resource i
query_resource(i, uri, o, detail) ==
    LET p == parse_uri(uri)
        found == [raised |-> FALSE, route |-> route(p), parsed |-> p]
    IN IF p.raised
       THEN [raised |-> propagates(p), route |-> "none", parsed |-> p] @@ Fetched(<<>>, <<>>)
       ELSE IF route(p) = "document"
       THEN found @@ _fetch_single_data_detail(i, p.document_id, o)
       ELSE IF route(p) = "collection"
       THEN found @@ _fetch_collection_data_list(i, p.collection_id, o, detail)
       ELSE found @@ _fetch_from_dataset(i, p.dataset_id, o)

\* query_relevant_documents from resource i on
RECURSIVE query_from(_, _, _, _)
query_from(i, rs, outs, details) ==
    IF i > Len(rs) THEN [raised |-> FALSE, routes |-> <<>>] @@ Fetched(<<>>, <<>>)
    ELSE LET r == query_resource(i, rs[i], outs[i], details[i])
         IN IF r.raised THEN [raised |-> TRUE, routes |-> <<>>] @@ Fetched(<<>>, <<>>)
            ELSE LET rest == query_from(i + 1, rs, outs, details)
                 IN [raised |-> rest.raised,
                     routes |-> <<[route |-> r.route, parsed |-> r.parsed]>> \o rest.routes,
                     documents |-> IF rest.raised THEN <<>> ELSE r.documents \o rest.documents,
                     requests |-> r.requests \o rest.requests]
query_relevant_documents(rs, outs, details) ==
    IF rs = <<>> THEN [raised |-> FALSE, routes |-> <<>>] @@ Fetched(<<>>, <<>>)
    ELSE query_from(1, rs, outs, details)

\* a list of resources, or one URI, is handed over; resources are listed, a URI
\* is parsed, the documents of the resources are queried
InitRag ==
    /\ checkpoint_saver = FALSE
    /\ db_uri = <<"mongodb", "://", "h">>
    /\ mongo_db = init_mongo_db(FALSE, db_uri, "ok")
    /\ postgres_conn = init_postgres_conn(FALSE, db_uri, "ok")
    /\ connect = connect_outcome(FALSE, db_uri, "ok")
    /\ store = [t \in ThreadIds |-> <<>>]
    /\ chat_streams = <<>>
    /\ research_replays = <<>>
    /\ langgraph_events = <<>>
    /\ pg_txn = "idle"
    /\ last = Record("init", "", NoText, "", NoCall)
    /\ submitted = [t \in ThreadIds |-> <<>>]
    /\ closed = [t \in ThreadIds |-> 0]
    /\ calls = <<>>
    /\ budget = [chunks |-> 0, replays |-> 0, events |-> 0]
    /\ relational = <<>>
    /\ resources \in {<<uri>> : uri \in Uris} \cup Lists(ResourceUris, MaxResources)

Started == last.op \in {"init", "list_resources"} /\ ~last.raised

ParseUri ==
    /\ Started
    /\ Len(resources) = 1
    /\ last' = [op |-> "parse_uri", uri |-> resources[1]] @@ parse_uri(resources[1])
    /\ UNCHANGED <<config, budget, relational, resources, store, chat_streams,
                   research_replays, langgraph_events, pg_txn, submitted, closed, calls>>

\* list_resources; the resources it returns are those handed over next
ListResources ==
    /\ last.op = "init"
    /\ \E o \in RequestOutcomes, datasets \in Lists(DatasetIds \cup {NoId}, MaxResources) :
         IF o = "ok"
         THEN /\ resources' = list_resources(datasets)
              /\ last' = [op |-> "list_resources", raised |-> FALSE, datasets |-> datasets]
         ELSE /\ resources' = resources
              /\ last' = [op |-> "list_resources", raised |-> TRUE, datasets |-> <<>>]
    /\ UNCHANGED <<config, budget, relational, store, chat_streams,
                   research_replays, langgraph_events, pg_txn, submitted, closed, calls>>

QueryRelevantDocuments ==
    /\ Started
    /\ \E outs \in [1..Len(resources) -> RequestOutcomes],
          details \in [1..Len(resources) -> RequestOutcomes] :
         last' = [op |-> "query_relevant_documents", listed |-> last.op = "list_resources",
                  outs |-> outs, details |-> details]
                 @@ query_relevant_documents(resources, outs, details)
    /\ UNCHANGED <<config, budget, relational, resources, store, chat_streams,
                   research_replays, langgraph_events, pg_txn, submitted, closed, calls>>

NextRag ==
    \/ ParseUri
    \/ ListResources
    \/ QueryRelevantDocuments

SpecRag == InitRag /\ [][NextRag]_vars

\* ------------------------------------------------- concurrent callers
\* process_stream_message called from several threads at once. The method holds
\* no lock: between two of its store operations any other caller may run. Each
\* caller makes one call; the call's steps are the method's store operations,
\* and the consolidation of a terminal chunk is its last step.
MaxCallers == 2
Callers == 1..MaxCallers
RaceFinishReasons == {"tool_calls", "stop"}
IdleCall == [pc |-> "idle", thread_id |-> "", message |-> NoText, finish_reason |-> "",
             current_index |-> -1, messages |-> <<>>, ret |-> "None", during |-> {}]
InFlight == {c \in Callers : calls[c].pc \notin {"idle", "done"}}
AllDone == \A c \in Callers : calls[c].pc = "done"

\* the call is made: lines 448-454, the two validations
Begin(c) ==
    /\ calls[c].pc = "idle"
    /\ \E a \in {ArgsRead(thread_id, message, finish_reason) :
                    thread_id \in ThreadIds \cup {""}, message \in {NoText, MessagePool[c]},
                    finish_reason \in RaceFinishReasons} :
         LET call == [calls[c] EXCEPT !.thread_id = a[1], !.message = a[2],
                                      !.finish_reason = a[3]]
         IN IF ~valid_thread_id(a[1]) \/ ~valid_message(a[2])
            THEN calls' = [calls EXCEPT ![c] = [call EXCEPT !.pc = "done", !.ret = "False"]]
            ELSE calls' = [calls EXCEPT ![c] = [call EXCEPT !.pc = "get",
                                                            !.during = InFlight]]
    /\ UNCHANGED <<config, budget, relational, resources, store, chat_streams, research_replays,
                   langgraph_events, pg_txn, last, submitted, closed>>

\* cursor = self.store.get(...) and the index computed from it: lines 461-470
Get(c) ==
    /\ calls[c].pc = "get"
    /\ calls' = [calls EXCEPT ![c] = [@ EXCEPT !.pc = "put_cursor",
                     !.current_index = next_index(store[store_namespace(calls[c].thread_id)])]]
    /\ UNCHANGED <<config, budget, relational, resources, store, chat_streams, research_replays,
                   langgraph_events, pg_txn, last, submitted, closed>>

\* self.store.put(store_namespace, "cursor", {"index": current_index}): 466 / 470
PutCursor(c) ==
    /\ calls[c].pc = "put_cursor"
    /\ store' = [store EXCEPT ![store_namespace(calls[c].thread_id)] =
                    store_put(@, cursor_key,
                              CursorValue(cursor_written(calls[c].current_index)))]
    /\ calls' = [calls EXCEPT ![c] = [@ EXCEPT !.pc = "put_chunk"]]
    /\ UNCHANGED <<config, budget, relational, resources, chat_streams, research_replays,
                   langgraph_events, pg_txn, last, submitted, closed>>

\* self.store.put(store_namespace, f"chunk_{current_index}", message): 473, and
\* the return True of a chunk that is not terminal: 481
PutChunk(c) ==
    /\ calls[c].pc = "put_chunk"
    /\ store' = [store EXCEPT ![store_namespace(calls[c].thread_id)] =
                    store_put(@, chunk_key(calls[c].current_index),
                              ChunkValue(calls[c].message))]
    /\ IF is_terminal(calls[c].finish_reason)
       THEN calls' = [calls EXCEPT ![c] = [@ EXCEPT !.pc = "drain"]]
       ELSE calls' = [calls EXCEPT ![c] = [@ EXCEPT !.pc = "done", !.ret = "True"]]
    /\ UNCHANGED <<config, budget, relational, resources, chat_streams, research_replays,
                   langgraph_events, pg_txn, last, submitted, closed>>

\* _persist_complete_conversation: the store search and the extraction of the
\* chunk texts, lines 507-518
Drain(c) ==
    /\ calls[c].pc = "drain"
    /\ store' = [store EXCEPT ![store_namespace(calls[c].thread_id)] = after_search(@)]
    /\ calls' = [calls EXCEPT ![c] = [@ EXCEPT !.pc = "persist",
                     !.messages = drain(store[store_namespace(calls[c].thread_id)],
                                        calls[c].current_index)]]
    /\ UNCHANGED <<config, budget, relational, resources, chat_streams, research_replays,
                   langgraph_events, pg_txn, last, submitted, closed>>

\* _persist_complete_conversation from "if not messages" on, and the return of
\* its result: lines 520-542, 476-479
Persist(c) ==
    /\ calls[c].pc = "persist"
    /\ LET t == calls[c].thread_id
           m == calls[c].message
           f == calls[c].finish_reason
       IN \E ro \in SummaryOutcomes(t, m, f), po \in UpsertOutcomes(t, m, f) :
           \E r \in {persist_drained(DbState, t, calls[c].current_index,
                                      calls[c].messages, ro, po)} :
             /\ store' = r.d.store
             /\ chat_streams' = r.d.cs
             /\ research_replays' = r.d.rr
             /\ langgraph_events' = r.d.ev
             /\ pg_txn' = r.d.txn
             /\ calls' = [calls EXCEPT ![c] = [@ EXCEPT !.pc = "done", !.ret = r.out.ret]]
    /\ UNCHANGED <<config, budget, relational, resources, last, submitted, closed>>

Step(c) == Begin(c) \/ Get(c) \/ PutCursor(c) \/ PutChunk(c) \/ Drain(c) \/ Persist(c)

InitRace ==
    /\ checkpoint_saver = TRUE
    /\ db_uri \in {<<"mongodb", "://", "h">>, <<"postgresql", "://", "h">>}
    /\ \E c \in ConnectOutcomes :
         /\ mongo_db = init_mongo_db(TRUE, db_uri, c)
         /\ postgres_conn = init_postgres_conn(TRUE, db_uri, c)
         /\ connect = c
    /\ InitEmpty
    /\ budget = [chunks |-> MaxCallers, replays |-> 0, events |-> 0]
    /\ calls = [c \in Callers |-> IdleCall]

NextRace == \E c \in Callers : Step(c)

SpecRace == InitRace /\ [][NextRace]_vars

\* every caller's thread is scheduled again and again until its call returns
SpecRaceFair == SpecRace /\ \A c \in Callers : WF_vars(Step(c))

\* ------------------------------------------------- properties
SubmitOps == {"process_stream_message", "chat_stream_message"}
IsSubmit == last.op \in SubmitOps
Accepted == IsSubmit /\ last.index >= 0
TerminalReasons == {"stop", "interrupt"}
Durable == <<chat_streams, research_replays, langgraph_events>>

\* the chunk items of a namespace, and its chunk texts by ascending chunk index
ChunkItems(ns) == {i \in 1..Len(ns) : ns[i].key[1] = "chunk"}
ByIndex(ns) ==
    [k \in 1..Cardinality(ChunkItems(ns)) |->
        (CHOOSE e \in {ns[i] : i \in ChunkItems(ns)} : e.key = <<"chunk", k - 1>>).value.text]
HasAllIndices(ns, n) ==
    /\ Cardinality(ChunkItems(ns)) = n
    /\ {ns[i].key[2] : i \in ChunkItems(ns)} = 0..(n - 1)

\* C1: the chunks accepted for a thread, one call after another, are stored under
\* the indices 0..N-1 without gap or repeat, the index a call is given is the
\* number of chunks accepted for the thread before it, and searching the
\* namespace yields exactly the N chunk texts in the order they were submitted.
C1_IndicesContiguous ==
    /\ \A t \in ThreadIds :
         LET n == Len(submitted[t])
         IN /\ HasAllIndices(store[t], n)
            /\ ByIndex(store[t]) = submitted[t]
            /\ n >= 1 => /\ store_get(store[t], cursor_key).index = n - 1
                         /\ ExtractMessages(SubSeq(store[t], 1, Min(n + 1, Len(store[t]))))
                              = submitted[t]
    /\ Accepted => last.index = Len(submitted[last.thread_id]) - 1
C1_Witness ==
    /\ Accepted
    /\ Len(submitted[last.thread_id]) >= 2
    /\ last.index = 1

\* C2: a submit with finish_reason "stop" or "interrupt" hands to the upsert
\* exactly the chunk texts buffered for the thread, the one it carries included
\* and last, in ascending index order, without the cursor item and with no text
\* missing or repeated.
C2_UpsertGetsAllChunks ==
    /\ Accepted /\ last.finish_reason \in TerminalReasons
           /\ checkpoint_saver /\ (mongo_db \/ postgres_conn)
         => last.persisted
    /\ IsSubmit /\ last.persisted =>
         /\ last.index >= 0 /\ last.finish_reason \in TerminalReasons
         /\ last.upsertArg = ByIndex(store[last.thread_id])
         /\ last.upsertArg = submitted[last.thread_id]
         /\ last.upsertArg[Len(last.upsertArg)] = last.message
         /\ \A i, j \in 1..Len(last.upsertArg) : i # j => last.upsertArg[i] # last.upsertArg[j]
C2_Witness ==
    /\ IsSubmit /\ last.persisted
    /\ Len(last.upsertArg) >= 2

\* C3 (as claimed): once a terminal submit that had chunks to consolidate has
\* returned, the thread has no chunk and no cursor left in the in-memory store.
C3_EvictedAfterTerminal ==
    Accepted /\ last.finish_reason \in TerminalReasons /\ last.persisted
        => store[last.thread_id] = <<>>

\* C4 (as claimed): the first submit after a thread was consolidated gets index 0,
\* and a later terminal submit persists only what was submitted since.
C4_FreshCursorAfterConsolidation ==
    Accepted =>
        /\ last.index = Len(last.round) - 1
        /\ last.persisted => last.upsertArg = last.round

\* the conversation records stored for a thread
Records(t) == {chat_streams[i] : i \in Matching(chat_streams, t)}

\* C5: a terminal submit returns True only when the upsert reported an affected
\* row or document, and then the stored conversation of the thread holds the
\* consolidated list; an upsert that affected nothing yields False.
C5_TrueOnlyIfAffected ==
    Accepted /\ last.finish_reason \in TerminalReasons =>
        /\ last.ret = "True" =>
             /\ last.persisted /\ last.affected > 0
             /\ Records(last.thread_id) # {}
             /\ \A c \in Records(last.thread_id) : c.messages = submitted[last.thread_id]
        /\ last.persisted /\ last.affected <= 0 => last.ret = "False"
C5_Witness ==
    /\ Accepted /\ last.persisted
    /\ last.affected = 0
    /\ last.ret = "False"

\* C6: a submit with an empty or non-string thread_id, or an empty message,
\* returns False and changes nothing: no chunk, no cursor, no backend call,
\* for every finish_reason.
InvalidArgs(c) ==
    \/ c.thread_id = "" \/ c.thread_id = NonStrId \/ c.thread_id = NoneVal
    \/ c.message = NoText
C6_RejectedChangesNothing ==
    [][ last'.op \in SubmitOps /\ InvalidArgs(last') =>
          /\ last'.ret = "False"
          /\ last'.index = -1 /\ ~last'.touched /\ ~last'.persisted /\ ~last'.replayCalled
          /\ UNCHANGED <<store, chat_streams, research_replays, langgraph_events,
                         pg_txn, submitted>> ]_vars
C6_Witness ==
    /\ last.op = "process_stream_message"
    /\ last.thread_id \in ThreadIds /\ last.message = NoText
    /\ last.ret = "False"
    /\ store[last.thread_id] # <<>>

\* C7: an accepted submit whose finish_reason is neither "stop" nor "interrupt"
\* only appends its chunk: it returns True, calls neither the upsert nor the
\* replay logger and leaves the durable records alone; the conversation records
\* change only in a submit with "stop" or "interrupt".
C7_NonTerminalOnlyAppends ==
    [][ /\ last'.op \in SubmitOps /\ last'.index >= 0
             /\ last'.finish_reason \notin TerminalReasons
          => /\ last'.ret = "True"
             /\ ~last'.persisted /\ ~last'.replayCalled /\ ~last'.touched
             /\ UNCHANGED <<chat_streams, research_replays, langgraph_events, pg_txn>>
             /\ \A t \in ThreadIds \ {last'.thread_id} : store'[t] = store[t]
             /\ ExtractMessages(store'[last'.thread_id])
                  = Append(ExtractMessages(store[last'.thread_id]), last'.message)
        /\ chat_streams' # chat_streams
          => last'.op \in SubmitOps /\ last'.finish_reason \in TerminalReasons ]_vars
C7_Witness ==
    /\ last.op = "process_stream_message" /\ last.index >= 0
    /\ last.finish_reason = "tool_calls" /\ last.ret = "True"
    /\ chat_streams # <<>> /\ research_replays # <<>>

\* C8: upserting the conversation of a thread again leaves one record for the
\* thread, holding the list of the second call; no thread ever has two records.
C8_UpsertOverwrites ==
    /\ \A t \in ThreadIds : Cardinality(Matching(chat_streams, t)) <= 1
    /\ IsSubmit /\ last.persisted /\ last.affected > 0 =>
         /\ Cardinality(Matching(chat_streams, last.thread_id)) = 1
         /\ find_one(chat_streams, last.thread_id).messages = last.upsertArg
C8_Witness ==
    /\ IsSubmit /\ last.persisted /\ last.existed /\ last.affected > 0
    /\ Len(last.upsertArg) = 2
    /\ postgres_conn

\* C9: with the checkpoint saver disabled, every module-level function returns
\* its disabled result, raises nothing, reaches no backend and writes nothing.
WrapperOps == {"chat_stream_message", "list_conversations", "get_conversation",
               "log_graph_event", "log_research_replays"}
Unrecognized ==
    /\ checkpoint_saver
    /\ ~startswith(db_uri, <<"mongodb", "://">>)
    /\ ~startswith(db_uri, <<"postgresql", "://">>)
    /\ ~startswith(db_uri, <<"postgres", "://">>)
NoBackendResults ==
    /\ ~mongo_db /\ ~postgres_conn
    /\ Durable = << <<>>, <<>>, <<>> >>
    /\ ~last.raised /\ ~last.touched /\ ~last.persisted
    /\ last.op = "get_messages_by_id" => last.ret = "None"
    /\ last.op = "get_stream_messages" => last.ret = "List" /\ last.rows = <<>>
C11_Kept(f) ==
    /\ find(f, "event:") \/ find(f, "data:")
    /\ find(f, "message_chunk") =>
          find(f, "content") \/ find(f, "reasoning_content") \/ find(f, "finish_reason")
RECURSIVE C11_Concat(_)
C11_Concat(fs) ==
    IF fs = <<>> THEN NoText
    ELSE C11_Concat(SubSeq(fs, 1, Len(fs) - 1)) \o fs[Len(fs)]
C12_Consolidated(t) == SubSeq(submitted[t], 1, closed[t])
SummaryCall == "ChatStreamManager.log_research_replays"
RowCount(tbl, t) == Cardinality(Matching(tbl, t))
C13_ZeroInserts ==
    [][last'.op = SummaryCall /\ last'.replayCount = 0
         /\ last'.touched /\ last'.caught = {} =>
            /\ Len(research_replays') = Len(research_replays) + 1
            /\ SubSeq(research_replays', 1, Len(research_replays)) = research_replays
            /\ \A t \in ThreadIds :
                 RowCount(research_replays', t) =
                    RowCount(research_replays, t) + (IF t = last'.thread_id THEN 1 ELSE 0)]_vars
C13_Witness ==
    /\ last.op = SummaryCall /\ last.replayCount = 0 /\ last.touched /\ last.caught = {}
    /\ RowCount(research_replays, last.thread_id) = 2

\* ---- C14: log_research_replays with messages > 0 never changes the number of
\* summary rows: with no row for the thread it writes nothing; with a row it
\* changes nothing but the messages count of the thread's rows (topic, style,
\* timestamp and the rows of other threads stay), and unless the backend raises
\* a row of the thread then carries the new count.
C14_PositiveOnlyUpdates ==
    [][last'.op = SummaryCall /\ last'.replayCount > 0 =>
         LET old == research_replays
             new == research_replays'
             key == last'.thread_id
         IN /\ Len(new) = Len(old)
            /\ ~Exists(old, key) => new = old
            /\ \A i \in 1..Len(old) :
                 /\ [new[i] EXCEPT !.messages = old[i].messages] = old[i]
                 /\ old[i].thread_id # key => new[i] = old[i]
                 /\ new[i].messages \in {old[i].messages, last'.replayCount}
            /\ Exists(old, key) /\ last'.touched /\ last'.caught = {} =>
                 \E i \in Matching(new, key) : new[i].messages = last'.replayCount]_vars
C14_Witness ==
    /\ last.op = SummaryCall /\ last.replayCount > 0 /\ last.touched /\ last.caught = {}
    /\ \E i \in Matching(research_replays, last.thread_id) :
          research_replays[i].messages = last.replayCount
    /\ \E i \in 1..Len(research_replays) :
          /\ research_replays[i].thread_id # last.thread_id
          /\ research_replays[i].messages = 0

\* ---- C15: no call lets a backend error reach its caller: whatever the backend
\* does during the upsert, the event insert, the summary write, the conversation
\* read or the summary listing, the call returns its failure or empty result.
C15_NoErrorPropagates ==
    /\ ~last.raised
    /\ "upsert" \in last.caught => last.ret = "False"
    /\ "list" \in last.caught => last.ret = "List" /\ last.rows = <<>>
    /\ last.op \in {SummaryCall, "ChatStreamManager.log_graph_event"} => last.ret = "None"

\* ---- C16: on PostgreSQL every call that hits a backend error rolls the
\* transaction back before it returns: no call returns with the connection's
\* transaction aborted.
C16_NeverLeftAborted == postgres_conn => pg_txn = "idle"

\* ---- C17: a backend error in the summary step of a terminal submit is
\* swallowed: the submit does not raise, the upsert is still attempted, and the
\* submit returns what it would have returned had the summary step succeeded
\* (the upsert meeting the same backend behaviour).
C17_SummaryErrorSwallowed ==
    [][last'.op \in SubmitOps /\ "summary" \in last'.caught =>
         /\ ~last'.raised
         /\ last'.persisted
         /\ last'.ret = process_stream_message(DbState, last'.thread_id, last'.message,
                             last'.finish_reason, "ok", last'.upsertOutcome).out.ret]_vars

\* ---- C18: event records are append-only: a log_graph_event that the backend
\* executes adds exactly one event record, no other call adds one, no call
\* changes or removes an existing one, and log_graph_event never raises.
EventCall == "ChatStreamManager.log_graph_event"
Stored(t) == {c \in Callers : /\ calls[c].thread_id = t
                              /\ calls[c].current_index >= 0
                              /\ calls[c].pc \in {"drain", "persist", "done"}}
Assigned(t) == {c \in Callers : calls[c].thread_id = t /\ calls[c].current_index >= 0}
Overlapped(c, d) == d \in calls[c].during \/ c \in calls[d].during
ChunkIndices(ns) == {ns[i].key[2] : i \in ChunkItems(ns)}
C19_DuplicateLosesFragment ==
    \A t \in ThreadIds :
      /\ Cardinality(ChunkItems(store[t])) =
            Cardinality({calls[c].current_index : c \in Stored(t)})
      /\ \A i \in ChunkItems(store[t]) :
            \E c \in Stored(t) : /\ store[t][i].key = chunk_key(calls[c].current_index)
                                 /\ store[t][i].value = ChunkValue(calls[c].message)
      /\ \A c, d \in Assigned(t) :
            c # d /\ calls[c].current_index = calls[d].current_index =>
              /\ Overlapped(c, d)
              /\ {c, d} \subseteq Stored(t) =>
                    Cardinality(ChunkItems(store[t])) < Cardinality(Stored(t))
C19_Witness ==
    /\ AllDone
    /\ \E t \in ThreadIds : \E c, d \in Stored(t) :
          /\ c # d
          /\ calls[c].current_index = calls[d].current_index
          /\ calls[c].ret = "True" /\ calls[d].ret = "True"
          /\ Cardinality(ChunkItems(store[t])) = 1
          /\ Cardinality(Stored(t)) = 2

\* ---- C20: concurrent submits for one thread leave no index skipped: an index
\* below the largest one given lacks its chunk only while the call that was
\* given it is between its cursor write and its chunk write, and once every
\* call has returned the chunks of a thread are stored under 0..largest index.
MaxIndex(t) ==
    CHOOSE n \in {calls[c].current_index : c \in Assigned(t)} :
        \A c \in Assigned(t) : calls[c].current_index <= n
Skipped(t) ==
    IF Assigned(t) = {} THEN {} ELSE (0..(MaxIndex(t) - 1)) \ ChunkIndices(store[t])
Alone(c) == process_stream_message(EmptyDb, calls[c].thread_id, calls[c].message,
                                   calls[c].finish_reason, "ok", "ok")
OnlyCaller(c) ==
    /\ calls[c].thread_id \in ThreadIds
    /\ \A e \in Callers \ {c} : calls[e].thread_id # calls[c].thread_id
IsPrefix(a, b) == Len(a) <= Len(b) /\ SubSeq(b, 1, Len(a)) = a
C21_AloneInThread ==
    \A c \in Callers : OnlyCaller(c) =>
        LET t == calls[c].thread_id
            a == Alone(c)
        IN /\ IsPrefix(store[t], a.d.store[t])
           /\ calls[c].pc \in {"put_cursor", "put_chunk", "drain", "persist", "done"}
                 /\ calls[c].message # NoText => calls[c].current_index = a.out.index
           /\ calls[c].pc \in {"drain", "persist", "done"} /\ calls[c].message # NoText =>
                 store[t] = a.d.store[t]
           /\ calls[c].pc \in {"persist", "done"} /\ is_terminal(calls[c].finish_reason)
                 /\ calls[c].message # NoText =>
                 calls[c].messages = drain(a.d.store[t], a.out.index)
C21_NoInterference ==
    /\ []C21_AloneInThread
    /\ [][\A c \in Callers : calls'[c] # calls[c] =>
            /\ \A e \in Callers \ {c} : calls'[e] = calls[e]
            /\ \A u \in ThreadIds \ {calls'[c].thread_id} : store'[u] = store[u]]_vars
C21_Witness ==
    /\ AllDone
    /\ calls[1].thread_id = "t1" /\ calls[2].thread_id = "t2"
    /\ Overlapped(1, 2)
    /\ calls[1].finish_reason = "stop" /\ calls[2].finish_reason = "stop"
    /\ calls[1].messages = <<MessagePool[1]>> /\ calls[2].messages = <<MessagePool[2]>>
    /\ ExtractMessages(store["t1"]) = <<MessagePool[1]>>
    /\ ExtractMessages(store["t2"]) = <<MessagePool[2]>>

\* ---- C22: the MongoDB and the PostgreSQL variant are equivalent: given the
\* same backend operations, none of them failing, both hold the same
\* conversations, events and summary rows and return the same results, also
\* when a thread has several summary rows.
ResultOf(rec) == [f \in DOMAIN NoCall |-> rec[f]]
ListCall == "listReplaySummaries"
C22_VariantsEquivalent ==
    /\ relational.cs = chat_streams
    /\ relational.ev = langgraph_events
    /\ relational.rr = research_replays
    /\ relational.out = ResultOf(last)

\* ---- C23: listReplaySummaries(limit, sort) returns at most limit summary
\* rows, in descending order of the sort field, and they are the limit largest
\* of the stored rows; the call changes no stored record. Stated of the rows
\* either variant returns.
C23_TopRows(rows, tbl, limit, sort) ==
    /\ Len(rows) <= limit
    /\ Len(rows) = Min(limit, Len(tbl))
    /\ \A i, j \in 1..Len(rows) : i < j => rows[i][sort] >= rows[j][sort]
    /\ \E p \in Perms(Len(tbl)) :
          /\ \A i \in 1..Len(rows) : rows[i] = tbl[p[i]]
          /\ \A i \in 1..Len(rows), j \in (Len(rows) + 1)..Len(tbl) :
                rows[i][sort] >= tbl[p[j]][sort]
C23_ListBounded ==
    /\ [](last.op = ListCall =>
            /\ C23_TopRows(last.rows, research_replays, last.limit, last.sort)
            /\ C23_TopRows(relational.out.rows, relational.rr, last.limit, last.sort))
    /\ [][last'.op = ListCall =>
            /\ UNCHANGED <<chat_streams, research_replays, langgraph_events, store>>
            /\ relational'.cs = relational.cs /\ relational'.rr = relational.rr
            /\ relational'.ev = relational.ev]_vars

\* ---- C24: no retry and no requeue: the upsert is attempted only in a submit
\* with "stop" or "interrupt", once, and the chunks of a consolidation whose
\* upsert failed are dropped: the next consolidation of the thread holds none
\* of them.
Elements(seq) == {seq[i] : i \in 1..Len(seq)}
FailedConsolidation(c) ==
    /\ c.op \in SubmitOps /\ c.persisted /\ c.ret = "False"
C24_NoRequeue ==
    [][/\ last'.op \in SubmitOps /\ last'.persisted =>
            last'.index >= 0 /\ last'.finish_reason \in TerminalReasons
       /\ chat_streams' # chat_streams => last'.op \in SubmitOps /\ last'.persisted
       /\ FailedConsolidation(last) /\ last'.op \in SubmitOps /\ last'.persisted
             /\ last'.thread_id = last.thread_id =>
            Elements(last'.upsertArg) \cap Elements(last.upsertArg) = {}]_vars

\* ---- C25: log_graph_event and log_research_replays reach the backend only
\* when the saver is enabled and a handle is set, and on a manager whose
\* connection could not be established at construction, with MongoDB or with
\* PostgreSQL, they return None without raising and without any backend
\* operation.
LogCalls == {"ChatStreamManager.log_graph_event", "ChatStreamManager.log_research_replays",
             "log_graph_event", "log_research_replays"}
ConnectFailed == connect \in {"raises", PingRaises}
C25_NoBackendAfterFailedConnect ==
    last.op \in LogCalls =>
        /\ ~last.raised
        /\ last.touched => Connected
        /\ ConnectFailed => ~last.touched /\ last.ret = "None" /\ Durable = << <<>>, <<>>, <<>> >>

\* ---- C26: parse_uri accepts both documented formats without raising:
\* "rag://dataset/{dataset_id}#doc" yields (dataset_id, None, doc) and
\* "rag://dataset/{dataset_id}/collection/{collection_id}#doc" yields
\* (dataset_id, collection_id, doc), for all alphanumeric ids.
C26_ParsesBothFormats ==
    last.op = "parse_uri" =>
        /\ \A ds \in DatasetIds, doc \in DocumentIds :
              last.uri = DatasetUri(ds) \o <<"#", doc>> =>
                 /\ ~last.raised
                 /\ last.dataset_id = <<ds>> /\ last.collection_id = NoneStr
                 /\ last.document_id = <<doc>>
        /\ \A ds \in DatasetIds, c \in CollectionIds, doc \in DocumentIds :
              last.uri = CollectionUri(ds, c) \o <<"#", doc>> =>
                 /\ ~last.raised
                 /\ last.dataset_id = <<ds>> /\ last.collection_id = <<c>>
                 /\ last.document_id = <<doc>>

\* ---- C27: a terminal submit that hands N chunks to the upsert has called
\* log_research_replays exactly once, with messages = N, and before the upsert
\* (a summary row of the thread then carries N unless the backend raised); a
\* non-terminal or rejected submit does not call it.
Occurrences(seq, x) == Cardinality({i \in 1..Len(seq) : seq[i] = x})
C27_SummaryBeforeUpsert ==
    IsSubmit =>
       /\ last.persisted =>
             /\ Occurrences(last.order, "log_research_replays") = 1
             /\ Len(last.order) = 2 /\ last.order[1] = "log_research_replays"
             /\ last.replayCalled /\ last.replayCount = Len(last.upsertArg)
             /\ "summary" \notin last.caught /\ Exists(research_replays, last.thread_id) =>
                   \E i \in Matching(research_replays, last.thread_id) :
                       research_replays[i].messages = Len(last.upsertArg)
       /\ ~Accepted \/ last.finish_reason \notin TerminalReasons =>
             ~last.replayCalled /\ last.order = <<>>
C27_Witness ==
    /\ IsSubmit /\ last.persisted /\ Len(last.upsertArg) = 2
    /\ \E i \in Matching(research_replays, last.thread_id) :
          research_replays[i].messages = 2

C29_Drained == drain(store[last.thread_id], last.index)
C29_DrainNeverEmpty ==
    /\ IsSubmit /\ Accepted /\ last.finish_reason \in TerminalReasons => last.drained
    /\ IsSubmit /\ last.drained =>
          /\ C29_Drained # <<>>
          /\ C29_Drained[Len(C29_Drained)] = last.message
          /\ last.persisted => last.upsertArg = C29_Drained
          /\ checkpoint_saver => last.replayCalled
C29_Witness ==
    /\ IsSubmit /\ last.drained /\ last.index = 1
    /\ Len(C29_Drained) = 2 /\ C29_Drained[2] = last.message
    /\ last.replayCalled

\* ---- C30: the drain of a consolidation only reads: the step that searches
\* the store and extracts the chunk texts leaves the chunks and the cursor of
\* the thread, the buffered items of every other thread and the tables as they
\* were.
C30_DrainReadOnly ==
    [][\A c \in Callers :
          calls[c].pc = "drain" /\ calls'[c].pc = "persist" =>
             /\ \A t \in ThreadIds : store'[t] = store[t]
             /\ Durable' = Durable]_vars
C30_Witness ==
    \E c \in Callers :
       /\ calls[c].pc = "persist" /\ calls[c].messages # <<>>
       /\ StoreHas(store[calls[c].thread_id], cursor_key)
       /\ ExtractMessages(store[calls[c].thread_id]) = calls[c].messages
       /\ \E t \in ThreadIds \ {calls[c].thread_id} : StoreHas(store[t], cursor_key)

\* ---- C31: the backend is chosen at construction and never again: a
\* mongodb:// URI can only set mongo_db, a postgresql:// or postgres:// URI only
\* postgres_conn, the two handles are never both set, and no call changes a
\* handle, the URI or the flag, whatever the backend did during the call.
C31_Scheme(scheme) == startswith(db_uri, <<scheme, "://">>)
C31_BackendFixed ==
    /\ [](/\ ~(mongo_db /\ postgres_conn)
          /\ mongo_db => checkpoint_saver /\ C31_Scheme("mongodb")
          /\ postgres_conn =>
                checkpoint_saver /\ (C31_Scheme("postgresql") \/ C31_Scheme("postgres"))
          /\ connect = "ok" =>
                /\ C31_Scheme("mongodb") => mongo_db
                /\ C31_Scheme("postgresql") \/ C31_Scheme("postgres") => postgres_conn)
    /\ [][/\ mongo_db' = mongo_db
          /\ postgres_conn' = postgres_conn
          /\ db_uri' = db_uri
          /\ checkpoint_saver' = checkpoint_saver]_vars
C31_Witness ==
    /\ C31_Scheme("postgres") /\ postgres_conn /\ ~mongo_db
    /\ pg_txn = "aborted"
    /\ last.touched /\ last.caught # {}

\* ---- C32: a terminal submit whose steps interleave with another submit for
\* the same thread drains its own chunk text and the text of every call for the
\* thread that had stored its chunk before the drain: the search limit
\* final_index + 2 cuts off no buffered chunk.
C32_DrainComplete ==
    [][\A c \in Callers :
          calls[c].pc = "drain" /\ calls'[c].pc = "persist" =>
             \A d \in Stored(calls[c].thread_id) :
                 calls[d].message \in Elements(calls'[c].messages)]_vars

\* ---- C33: a submit never creates a summary row: the summary rows change in
\* number only by a log_research_replays call with messages <= 0, which adds
\* one; so a thread consolidated while it had no summary row has none
\* afterwards.
C33_SummaryCalls == {SummaryCall, "log_research_replays"}
C33_SubmitCreatesNoSummary ==
    [][/\ Len(research_replays') # Len(research_replays) =>
             /\ last'.op \in C33_SummaryCalls /\ last'.replayCount <= 0
             /\ Len(research_replays') = Len(research_replays) + 1
       /\ last'.op \in SubmitOps =>
             \A t \in ThreadIds :
                 RowCount(research_replays', t) = RowCount(research_replays, t)]_vars
C33_Witness ==
    /\ IsSubmit /\ last.persisted /\ last.ret = "True" /\ last.replayCalled
    /\ Exists(chat_streams, last.thread_id)
    /\ ~Exists(research_replays, last.thread_id)
    /\ research_replays # <<>>

\* ---- C34: list_resources and parse_uri round-trip: list_resources returns
\* "rag://dataset/{id}" for the datasets that have an id, in order; parse_uri
\* reads such a URI as (id, None, no document id) and query_relevant_documents
\* sends it to the dataset-wide retrieval of that id. For any resource a
\* document id goes before a collection id, which goes before the dataset.
C34_Ids(datasets) == SelectSeq(datasets, LAMBDA id : id # NoId)
C34_RoundTrip ==
    /\ last.op = "list_resources" /\ ~last.raised =>
          /\ Len(resources) = Len(C34_Ids(last.datasets))
          /\ \A i \in 1..Len(resources) : resources[i] = DatasetUri(C34_Ids(last.datasets)[i])
    /\ last.op = "parse_uri" =>
          \A id \in DatasetIds : last.uri = DatasetUri(id) =>
              /\ ~last.raised /\ last.dataset_id = <<id>>
              /\ last.collection_id = NoneStr /\ last.document_id = <<>>
    /\ last.op = "query_relevant_documents" =>
          /\ \A i \in 1..Len(resources) : \A id \in DatasetIds :
                resources[i] = DatasetUri(id) =>
                   /\ last.routes[i].route = "dataset"
                   /\ Request("retrieve", <<id>>) \in Elements(last.requests)
          /\ last.listed => \A i \in 1..Len(last.requests) : last.requests[i].api = "retrieve"
          /\ \A i \in 1..Len(last.routes) :
                LET r == last.routes[i]
                IN r.route # "none" =>
                     /\ truthy(r.parsed.document_id) => r.route = "document"
                     /\ ~truthy(r.parsed.document_id) /\ truthy(r.parsed.collection_id) =>
                           r.route = "collection"
                     /\ ~truthy(r.parsed.document_id) /\ ~truthy(r.parsed.collection_id) =>
                           r.route = "dataset"
C34_Witness ==
    /\ last.op = "query_relevant_documents" /\ last.listed
    /\ Len(resources) = 2 /\ resources[1] # resources[2]
    /\ last.requests = <<Request("retrieve", <<resources[1][5]>>),
                         Request("retrieve", <<resources[2][5]>>)>>

\* ---- C35: query_relevant_documents keeps a failure to its resource: it never
\* raises; a resource whose URI parse_uri rejects causes no request and gives no
\* document, a resource whose retrieval request fails gives no document, every
\* other resource gives its documents, and the documents come in the order of
\* the resources. With no resources it returns [] and makes no request.
C35_Gives(i) == last.routes[i].route # "none" /\ last.outs[i] = "ok"
C35_RequestsOf(r) ==
    IF r = "none" THEN 0 ELSE IF r = "collection" THEN 2 ELSE 1
RECURSIVE C35_Requests(_)
C35_Requests(routes) ==
    IF routes = <<>> THEN 0
    ELSE C35_RequestsOf(Head(routes).route) + C35_Requests(Tail(routes))
C35_FailuresIsolated ==
    last.op = "query_relevant_documents" =>
        /\ ~last.raised
        /\ Len(last.routes) = Len(resources)
        /\ Len(last.requests) = C35_Requests(last.routes)
        /\ \A k \in 1..Len(last.documents) :
              /\ last.documents[k].resource \in 1..Len(resources)
              /\ C35_Gives(last.documents[k].resource)
        /\ \A i \in 1..Len(resources) :
              C35_Gives(i) => \E k \in 1..Len(last.documents) : last.documents[k].resource = i
        /\ \A j, k \in 1..Len(last.documents) :
              j < k => last.documents[j].resource <= last.documents[k].resource
        /\ resources = <<>> => last.documents = <<>> /\ last.requests = <<>>
C35_Witness ==
    /\ last.op = "query_relevant_documents" /\ Len(resources) = 2
    /\ last.routes[1].route = "none" /\ last.routes[1].parsed.raised
    /\ last.outs[1] = "ok" /\ last.outs[2] = "ok"
    /\ last.documents # <<>>
    /\ \A k \in 1..Len(last.documents) : last.documents[k].resource = 2

\* ---- C36: after every accepted submit the cursor item of the thread holds
\* the index just given plus one, the number of chunks buffered, and the chunk
\* was stored before the cursor was written.
C36_Cursor(t) == store_get(store[t], cursor_key).index
C36_CursorIsNextIndex ==
    Accepted =>
        /\ C36_Cursor(last.thread_id) = last.index + 1
        /\ C36_Cursor(last.thread_id) = Cardinality(ChunkItems(store[last.thread_id]))
        /\ StoreIdx(store[last.thread_id], chunk_key(0))
              < StoreIdx(store[last.thread_id], cursor_key)
\* C36 (amended): after every accepted submit the cursor item holds the index
\* just given, one less than the number of chunks buffered, and the cursor is
\* written before the chunk: it is the first item of the namespace.
C36_CursorIsLastIndex ==
    /\ Accepted => C36_Cursor(last.thread_id) = last.index
    /\ \A t \in ThreadIds : store[t] # <<>> =>
          /\ StoreHas(store[t], cursor_key)
          /\ C36_Cursor(t) = Cardinality(ChunkItems(store[t])) - 1
          /\ StoreIdx(store[t], cursor_key) = 1
          /\ StoreIdx(store[t], cursor_key) < StoreIdx(store[t], chunk_key(0))
C36_Witness ==
    /\ Accepted /\ last.index = 1
    /\ C36_Cursor(last.thread_id) = 1
    /\ Cardinality(ChunkItems(store[last.thread_id])) = 2

====
